---------------------------- MODULE Spec2Model ----------------------------
(***************************************************************************)
(* Type-level Japanese conjugation (typed-japanese).                       *)
(*                                                                         *)
(* The repository computes with string literal types.  A string is        *)
(* modelled as a sequence of characters, one token per character, and a    *)
(* template literal `${A}${B}` as concatenation that is `never` as soon as *)
(* one of its parts is `never`.  Characters are written in romaji          *)
(* (kunrei, one token per kana; kanji in upper case):                      *)
(*   "a" あ "i" い "u" う "e" え "o" お   "ka" か "ki" き "ku" く "ke" け "ko" こ *)
(*   "ga" が "gi" ぎ "gu" ぐ "ge" げ "go" ご  "sa" さ "si" し "su" す "se" せ "so" そ *)
(*   "ta" た "ti" ち "tu" つ "te" て "to" と  "da" だ "de" で  "xtu" っ  "n" ん      *)
(*   "na" な "ni" に "nu" ぬ "ne" ね "no" の  "ha" は  "ba" ば "bi" び "bu" ぶ       *)
(*   "be" べ "bo" ぼ  "ma" ま "mi" み "mu" む "me" め "mo" も  "yo" よ  "wa" わ      *)
(*   "ra" ら "ri" り "ru" る "re" れ "ro" ろ  "KU" 来  "KA" 買  "x" the letter x    *)
(* Conjugation forms are tags:                                             *)
(*   jisho 辞書形  masu ます形  te て形  ta た形  nai ない形  kanou 可能形     *)
(*   ukemi 受身形  shieki 使役形  ikou 意向形  meirei 命令形  jouken 条件形    *)
(*   katei 仮定形  kihon 基本形  teinei 丁寧形  kako 過去形  hitei 否定形      *)
(***************************************************************************)
EXTENDS Naturals, Sequences, FiniteSets, TLC

VARIABLES pc, word, form, result, accepted, call, alternatives

vars == <<pc, word, form, result, accepted, call, alternatives>>

---------------------------------------------------------------------------
(* Bounds *)

\* longest stem the model declares
MaxStemLen == 2

\* longest phrase sequence built from the pool of parts
MaxParts == 2

---------------------------------------------------------------------------
(* Strings and template literals *)

\* the type `never`
Never == <<"never">>

\* result slot before any conjugation was evaluated
Unevaluated == <<"unevaluated">>

\* result slot of a type that is a union of several string literals; the
\* literals are then held in alternatives
Union == <<"union">>

\* `${A}${B}`: a template literal over never is never
Template(A, B) == IF A = Never \/ B = Never THEN Never ELSE A \o B

\* characters stems are drawn from: 買, べ, い
StemChars == {"KA", "be", "i"}

\* `stem: string`, up to MaxStemLen characters (the empty string included)
Stems == UNION {[1..n -> StemChars] : n \in 0..MaxStemLen}

---------------------------------------------------------------------------
(* verb-types.d.ts *)

\* GodanVerb["ending"]
GodanEnding ==
  {<<"u">>, <<"ku">>, <<"gu">>, <<"su">>, <<"tu">>, <<"nu">>, <<"bu">>,
   <<"mu">>, <<"ru">>}

\* IchidanVerb["ending"]
IchidanEnding == {<<"ru">>}

\* IrregularVerb["dictionary"]: する, 来る, くる
IrregularDictionary == {<<"su", "ru">>, <<"KU", "ru">>, <<"ku", "ru">>}

\* ConjugationForm
ConjugationForm ==
  {"jisho", "masu", "te", "ta", "nai", "kanou", "ukemi", "shieki", "ikou",
   "meirei", "jouken", "katei"}

GodanConjugationMap ==
  <<"u">> :>
     [masu |-> <<"i">>, te |-> <<"xtu", "te">>, ta |-> <<"xtu", "ta">>,
      nai |-> <<"wa">>, kanou |-> <<"e">>, ukemi |-> <<"wa">>,
      shieki |-> <<"wa">>, ikou |-> <<"o">>, meirei |-> <<"e">>,
      jouken |-> <<"e">>, katei |-> <<"e">>]
  @@ <<"ku">> :>
     [masu |-> <<"ki">>, te |-> <<"i", "te">>, ta |-> <<"i", "ta">>,
      nai |-> <<"ka">>, kanou |-> <<"ke">>, ukemi |-> <<"ka">>,
      shieki |-> <<"ka">>, ikou |-> <<"ko">>, meirei |-> <<"ke">>,
      jouken |-> <<"ke">>, katei |-> <<"ke">>]
  @@ <<"gu">> :>
     [masu |-> <<"gi">>, te |-> <<"i", "de">>, ta |-> <<"i", "da">>,
      nai |-> <<"ga">>, kanou |-> <<"ge">>, ukemi |-> <<"ga">>,
      shieki |-> <<"ga">>, ikou |-> <<"go">>, meirei |-> <<"ge">>,
      jouken |-> <<"ge">>, katei |-> <<"ge">>]
  @@ <<"su">> :>
     [masu |-> <<"si">>, te |-> <<"si", "te">>, ta |-> <<"si", "ta">>,
      nai |-> <<"sa">>, kanou |-> <<"se">>, ukemi |-> <<"sa">>,
      shieki |-> <<"sa">>, ikou |-> <<"so">>, meirei |-> <<"se">>,
      jouken |-> <<"se">>, katei |-> <<"se">>]
  @@ <<"tu">> :>
     [masu |-> <<"ti">>, te |-> <<"xtu", "te">>, ta |-> <<"xtu", "ta">>,
      nai |-> <<"ta">>, kanou |-> <<"te">>, ukemi |-> <<"ta">>,
      shieki |-> <<"ta">>, ikou |-> <<"to">>, meirei |-> <<"te">>,
      jouken |-> <<"te">>, katei |-> <<"te">>]
  @@ <<"nu">> :>
     [masu |-> <<"ni">>, te |-> <<"n", "de">>, ta |-> <<"n", "da">>,
      nai |-> <<"na">>, kanou |-> <<"ne">>, ukemi |-> <<"na">>,
      shieki |-> <<"na">>, ikou |-> <<"no">>, meirei |-> <<"ne">>,
      jouken |-> <<"ne">>, katei |-> <<"ne">>]
  @@ <<"bu">> :>
     [masu |-> <<"bi">>, te |-> <<"n", "de">>, ta |-> <<"n", "da">>,
      nai |-> <<"ba">>, kanou |-> <<"be">>, ukemi |-> <<"ba">>,
      shieki |-> <<"ba">>, ikou |-> <<"bo">>, meirei |-> <<"be">>,
      jouken |-> <<"be">>, katei |-> <<"be">>]
  @@ <<"mu">> :>
     [masu |-> <<"mi">>, te |-> <<"n", "de">>, ta |-> <<"n", "da">>,
      nai |-> <<"ma">>, kanou |-> <<"me">>, ukemi |-> <<"ma">>,
      shieki |-> <<"ma">>, ikou |-> <<"mo">>, meirei |-> <<"me">>,
      jouken |-> <<"me">>, katei |-> <<"me">>]
  @@ <<"ru">> :>
     [masu |-> <<"ri">>, te |-> <<"xtu", "te">>, ta |-> <<"xtu", "ta">>,
      nai |-> <<"ra">>, kanou |-> <<"re">>, ukemi |-> <<"ra">>,
      shieki |-> <<"ra">>, ikou |-> <<"ro">>, meirei |-> <<"re">>,
      jouken |-> <<"re">>, katei |-> <<"re">>]

IrregularConjugationMap ==
  <<"su", "ru">> :>
     [jisho |-> <<"su", "ru">>, masu |-> <<"si">>, te |-> <<"si", "te">>,
      ta |-> <<"si", "ta">>, nai |-> <<"si">>, kanou |-> <<"de", "ki">>,
      ukemi |-> <<"sa", "re">>, shieki |-> <<"sa", "se">>,
      ikou |-> <<"si", "yo", "u">>, meirei |-> <<"si", "ro">>,
      jouken |-> <<"su", "re">>, katei |-> <<"su", "re">>]
  @@ <<"KU", "ru">> :>
     [jisho |-> <<"KU", "ru">>, masu |-> <<"KU">>, te |-> <<"KU", "te">>,
      ta |-> <<"KU", "ta">>, nai |-> <<"KU">>,
      kanou |-> <<"KU", "ra", "re">>, ukemi |-> <<"KU", "ra", "re">>,
      shieki |-> <<"KU", "sa", "se">>, ikou |-> <<"KU", "yo", "u">>,
      meirei |-> <<"KU", "i">>, jouken |-> <<"KU", "re">>,
      katei |-> <<"KU", "re">>]
  @@ <<"ku", "ru">> :>
     [jisho |-> <<"ku", "ru">>, masu |-> <<"ki">>, te |-> <<"ki", "te">>,
      ta |-> <<"ki", "ta">>, nai |-> <<"ko">>,
      kanou |-> <<"ko", "ra", "re">>, ukemi |-> <<"ko", "ra", "re">>,
      shieki |-> <<"ko", "sa", "se">>, ikou |-> <<"ko", "yo", "u">>,
      meirei |-> <<"ko", "i">>, jouken |-> <<"ku", "re">>,
      katei |-> <<"ku", "re">>]

\* T extends string ? T : never
StringLiteral(T) == IF T # Never THEN T ELSE Never

\* mutant: the 仮定形 column is missing from every row
GetGodanConjugation_PartialRow(E, F) ==
  IF F \in DOMAIN GodanConjugationMap[E] \ {"katei"}
    THEN StringLiteral(GodanConjugationMap[E][F])
    ELSE Never

\* mutant: the た形 is read from the て形 column
GetGodanConjugation_TeForTa(E, F) ==
  IF F \in DOMAIN GodanConjugationMap[E]
    THEN StringLiteral(GodanConjugationMap[E][IF F = "ta" THEN "te" ELSE F])
    ELSE Never

\* mutant: the 命令形 cell holds the dictionary ending
GetGodanConjugation_ImperativeEnding(E, F) ==
  IF F \in DOMAIN GodanConjugationMap[E]
    THEN IF F = "meirei" THEN E ELSE StringLiteral(GodanConjugationMap[E][F])
    ELSE Never

\* mutant: the 条件形 cell is the え-column fragment followed by ば
GetGodanConjugation_ConditionalBa(E, F) ==
  IF F \in DOMAIN GodanConjugationMap[E]
    THEN IF F = "jouken"
           THEN StringLiteral(GodanConjugationMap[E][F] \o <<"ba">>)
           ELSE StringLiteral(GodanConjugationMap[E][F])
    ELSE Never

GetGodanConjugation(E, F) ==
  IF F \in DOMAIN GodanConjugationMap[E]
    THEN StringLiteral(GodanConjugationMap[E][F])
    ELSE Never

\* mutant: every irregular verb is conjugated with the する row
GetIrregularConjugation_SuruRow(V, F) ==
  IF V.dictionary \in DOMAIN IrregularConjugationMap
    THEN IF F \in DOMAIN IrregularConjugationMap[<<"su", "ru">>]
           THEN StringLiteral(IrregularConjugationMap[<<"su", "ru">>][F])
           ELSE Never
    ELSE Never

GetIrregularConjugation(V, F) ==
  IF V.dictionary \in DOMAIN IrregularConjugationMap
    THEN IF F \in DOMAIN IrregularConjugationMap[V.dictionary]
           THEN StringLiteral(IrregularConjugationMap[V.dictionary][F])
           ELSE Never
    ELSE Never

\* mutant: the 辞書形 of a Godan verb drops the ending
ConjugateVerb_DictionaryStem(V, F) ==
  IF V.type = "godan"
    THEN IF F = "jisho"
           THEN V.stem
           ELSE Template(V.stem, GetGodanConjugation(V.ending, F))
  ELSE IF V.type = "ichidan"
    THEN IF F = "jisho" THEN Template(V.stem, V.ending)
         ELSE IF F = "masu" THEN V.stem
         ELSE IF F = "te" THEN Template(V.stem, <<"te">>)
         ELSE IF F = "ta" THEN Template(V.stem, <<"ta">>)
         ELSE IF F = "nai" THEN V.stem
         ELSE IF F \in {"kanou", "ukemi", "shieki", "katei", "jouken"}
           THEN Template(V.stem, <<"ra", "re">>)
         ELSE IF F = "ikou" THEN Template(V.stem, <<"yo", "u">>)
         ELSE IF F = "meirei" THEN Template(V.stem, <<"ro">>)
         ELSE Never
  ELSE IF V.type = "irregular"
    THEN GetIrregularConjugation(V, F)
  ELSE Never

\* mutant: the Ichidan 使役形 is stem + させ
ConjugateVerb_Causative(V, F) ==
  IF V.type = "godan"
    THEN IF F = "jisho"
           THEN Template(V.stem, V.ending)
           ELSE Template(V.stem, GetGodanConjugation(V.ending, F))
  ELSE IF V.type = "ichidan"
    THEN IF F = "jisho" THEN Template(V.stem, V.ending)
         ELSE IF F = "masu" THEN V.stem
         ELSE IF F = "te" THEN Template(V.stem, <<"te">>)
         ELSE IF F = "ta" THEN Template(V.stem, <<"ta">>)
         ELSE IF F = "nai" THEN V.stem
         ELSE IF F = "shieki" THEN Template(V.stem, <<"sa", "se">>)
         ELSE IF F \in {"kanou", "ukemi", "katei", "jouken"}
           THEN Template(V.stem, <<"ra", "re">>)
         ELSE IF F = "ikou" THEN Template(V.stem, <<"yo", "u">>)
         ELSE IF F = "meirei" THEN Template(V.stem, <<"ro">>)
         ELSE Never
  ELSE IF V.type = "irregular"
    THEN GetIrregularConjugation(V, F)
  ELSE Never

\* mutant: the Ichidan 命令形 branch is missing
ConjugateVerb_NoImperative(V, F) ==
  IF V.type = "godan"
    THEN IF F = "jisho"
           THEN Template(V.stem, V.ending)
           ELSE Template(V.stem, GetGodanConjugation(V.ending, F))
  ELSE IF V.type = "ichidan"
    THEN IF F = "jisho" THEN Template(V.stem, V.ending)
         ELSE IF F = "masu" THEN V.stem
         ELSE IF F = "te" THEN Template(V.stem, <<"te">>)
         ELSE IF F = "ta" THEN Template(V.stem, <<"ta">>)
         ELSE IF F = "nai" THEN V.stem
         ELSE IF F \in {"kanou", "ukemi", "shieki", "katei", "jouken"}
           THEN Template(V.stem, <<"ra", "re">>)
         ELSE IF F = "ikou" THEN Template(V.stem, <<"yo", "u">>)
         ELSE Never
  ELSE IF V.type = "irregular"
    THEN GetIrregularConjugation(V, F)
  ELSE Never

ConjugateVerb(V, F) ==
  IF V.type = "godan"
    THEN IF F = "jisho"
           THEN Template(V.stem, V.ending)
           ELSE Template(V.stem, GetGodanConjugation(V.ending, F))
  ELSE IF V.type = "ichidan"
    THEN IF F = "jisho" THEN Template(V.stem, V.ending)
         ELSE IF F = "masu" THEN V.stem
         ELSE IF F = "te" THEN Template(V.stem, <<"te">>)
         ELSE IF F = "ta" THEN Template(V.stem, <<"ta">>)
         ELSE IF F = "nai" THEN V.stem
         ELSE IF F \in {"kanou", "ukemi", "shieki", "katei", "jouken"}
           THEN Template(V.stem, <<"ra", "re">>)
         ELSE IF F = "ikou" THEN Template(V.stem, <<"yo", "u">>)
         ELSE IF F = "meirei" THEN Template(V.stem, <<"ro">>)
         ELSE Never
  ELSE IF V.type = "irregular"
    THEN GetIrregularConjugation(V, F)
  ELSE Never

\* mutant: an Ichidan verb may carry any Godan ending
IsVerb_AnyEnding(V) ==
  \/ V.type = "godan" /\ V.ending \in GodanEnding
  \/ V.type = "ichidan" /\ V.ending \in GodanEnding
  \/ V.type = "irregular" /\ V.dictionary \in IrregularDictionary

\* V extends Verb
IsVerb(V) ==
  \/ V.type = "godan" /\ V.ending \in GodanEnding
  \/ V.type = "ichidan" /\ V.ending \in IchidanEnding
  \/ V.type = "irregular" /\ V.dictionary \in IrregularDictionary

---------------------------------------------------------------------------
(* adjective-types.d.ts *)

\* IAdjective["ending"]
IAdjectiveEnding == {<<"i">>}

\* AdjectiveConjugationForm
AdjectiveConjugationForm == {"kihon", "teinei", "kako", "hitei"}

IAdjectiveConjugationMap ==
  <<"i">> :>
     [kihon |-> <<"i">>, teinei |-> <<"i", "de", "su">>,
      kako |-> <<"ka", "xtu", "ta">>, hitei |-> <<"ku", "na", "i">>]

\* mutant: the いい table has no て形 entry
IrregularAdjectiveMap_NoTe ==
  <<"i">> :>
     [kako |-> <<"yo", "ka", "xtu", "ta">>, hitei |-> <<"yo", "ku", "na", "i">>,
      teinei |-> <<"i", "i", "de", "su">>]

\* special case for いい
IrregularAdjectiveMap ==
  <<"i">> :>
     [kako |-> <<"yo", "ka", "xtu", "ta">>, hitei |-> <<"yo", "ku", "na", "i">>,
      te |-> <<"yo", "ku", "te">>, teinei |-> <<"i", "i", "de", "su">>]

\* mutant: regular i-adjectives read the いい table
GetIAdjectiveConjugation_Irregular(F) ==
  IF F \in DOMAIN IrregularAdjectiveMap[<<"i">>]
    THEN IrregularAdjectiveMap[<<"i">>][F]
    ELSE Never

\* mutant: a form missing from the table gives the empty fragment
GetIAdjectiveConjugation_EmptyFragment(F) ==
  IF F \in DOMAIN IAdjectiveConjugationMap[<<"i">>]
    THEN IAdjectiveConjugationMap[<<"i">>][F]
    ELSE <<>>

GetIAdjectiveConjugation(F) ==
  IF F \in DOMAIN IAdjectiveConjugationMap[<<"i">>]
    THEN IAdjectiveConjugationMap[<<"i">>][F]
    ELSE Never

\* mutant: the regular table is consulted before the いい table
GetIrregularAdjectiveConjugation_RegularFirst(Stem, F) ==
  IF Stem = <<"i">>
    THEN IF F \in DOMAIN IAdjectiveConjugationMap[<<"i">>]
           THEN IAdjectiveConjugationMap[<<"i">>][F]
         ELSE IF F \in DOMAIN IrregularAdjectiveMap[<<"i">>]
           THEN IrregularAdjectiveMap[<<"i">>][F]
         ELSE Never
    ELSE Never

\* mutant: a stem other than い falls back to the regular fragment
GetIrregularAdjectiveConjugation_FallBack(Stem, F) ==
  IF Stem = <<"i">>
    THEN IF F \in DOMAIN IrregularAdjectiveMap[<<"i">>]
           THEN IrregularAdjectiveMap[<<"i">>][F]
         ELSE IF F \in DOMAIN IAdjectiveConjugationMap[<<"i">>]
           THEN IAdjectiveConjugationMap[<<"i">>][F]
         ELSE Never
    ELSE Template(Stem, GetIAdjectiveConjugation(F))

GetIrregularAdjectiveConjugation(Stem, F) ==
  IF Stem = <<"i">>
    THEN IF F \in DOMAIN IrregularAdjectiveMap[<<"i">>]
           THEN IrregularAdjectiveMap[<<"i">>][F]
         ELSE IF F \in DOMAIN IAdjectiveConjugationMap[<<"i">>]
           THEN IAdjectiveConjugationMap[<<"i">>][F]
         ELSE Never
    ELSE Never

\* mutant: the na-adjective 丁寧形 is stem + だ
ConjugateAdjective_PlainCopula(A, F) ==
  IF A.type = "i-adjective"
    THEN IF A.irregular = "true"
           THEN IF F = "kihon"
                  THEN Template(A.stem, A.ending)
                  ELSE GetIrregularAdjectiveConjugation(A.stem, F)
           ELSE IF F = "kihon"
                  THEN Template(A.stem, A.ending)
                  ELSE Template(A.stem, GetIAdjectiveConjugation(F))
  ELSE IF A.type = "na-adjective"
    THEN IF F = "kihon" THEN Template(A.stem, <<"na">>)
         ELSE IF F = "teinei" THEN Template(A.stem, <<"da">>)
         ELSE IF F = "kako" THEN Template(A.stem, <<"de", "si", "ta">>)
         ELSE IF F = "hitei" THEN Template(A.stem, <<"de", "ha", "na", "i">>)
         ELSE IF F = "te" THEN Template(A.stem, <<"de">>)
         ELSE Never
  ELSE Never

\* `irregular?: boolean` is "true", "false" or "absent"
ConjugateAdjective(A, F) ==
  IF A.type = "i-adjective"
    THEN IF A.irregular = "true"
           THEN IF F = "kihon"
                  THEN Template(A.stem, A.ending)
                  ELSE GetIrregularAdjectiveConjugation(A.stem, F)
           ELSE IF F = "kihon"
                  THEN Template(A.stem, A.ending)
                  ELSE Template(A.stem, GetIAdjectiveConjugation(F))
  ELSE IF A.type = "na-adjective"
    THEN IF F = "kihon" THEN Template(A.stem, <<"na">>)
         ELSE IF F = "teinei" THEN Template(A.stem, <<"de", "su">>)
         ELSE IF F = "kako" THEN Template(A.stem, <<"de", "si", "ta">>)
         ELSE IF F = "hitei" THEN Template(A.stem, <<"de", "ha", "na", "i">>)
         ELSE IF F = "te" THEN Template(A.stem, <<"de">>)
         ELSE Never
  ELSE Never

\* A extends Adjective
IsAdjective(A) ==
  \/ A.type = "i-adjective" /\ A.ending \in IAdjectiveEnding
  \/ A.type = "na-adjective"

\* the adjective いい
Ii ==
  [type |-> "i-adjective", stem |-> <<"i">>, ending |-> <<"i">>,
   irregular |-> "true"]

---------------------------------------------------------------------------
(* adverb-types.d.ts *)

\* なぜ, なんで, どうして
WhyInterrogative ==
  {<<"na", "ze">>, <<"na", "n", "de">>, <<"do", "u", "si", "te">>}

\* the union of the eight interrogative categories: なぜ, なんで, どうして,
\* いつ, どこ, だれ, 誰, 何, なに, どう, どんな, どれ
InterrogativeAdverb ==
  WhyInterrogative \cup
    {<<"i", "tu">>, <<"do", "ko">>, <<"da", "re">>, <<"DARE">>, <<"NANI">>,
     <<"na", "ni">>, <<"do", "u">>, <<"do", "n", "na">>, <<"do", "re">>}

\* こう, そう, ああ, どう
Demonstrative ==
  {<<"ko", "u">>, <<"so", "u">>, <<"a", "a">>, <<"do", "u">>}

---------------------------------------------------------------------------
(* phrase-types.d.ts *)

\* は, が, を, に, へ, で, と, から, まで, よ, ね, か, よね, の, だ, も
Particle ==
  {<<"ha">>, <<"ga">>, <<"wo">>, <<"ni">>, <<"he">>, <<"de">>, <<"to">>,
   <<"ka", "ra">>, <<"ma", "de">>, <<"yo">>, <<"ne">>, <<"ka">>,
   <<"yo", "ne">>, <<"no">>, <<"da">>, <<"mo">>}

\* 、 。 ！ ？ 「 」 『 』
PunctuationMark ==
  {<<"touten">>, <<"kuten">>, <<"exclamation">>, <<"question">>,
   <<"lquote">>, <<"rquote">>, <<"ldquote">>, <<"rdquote">>}

\* なら, たら, れば, と
ConditionalParticle ==
  {<<"na", "ra">>, <<"ta", "ra">>, <<"re", "ba">>, <<"to">>}

\* the type `string`: one token that stands for any run of characters
String == <<"string">>

\* a type argument that was left out, so that its default applies
Omitted == <<"omitted">>

\* a form argument that was left out
OmittedForm == "omitted"

\* the string argument X, or the default D of its type parameter
Default(X, D) == IF X = Omitted THEN D ELSE X

\* the form argument F, or the default D of its type parameter
DefaultForm(F, D) == IF F = OmittedForm THEN D ELSE F

\* mutant: the particle is put in front of the phrase
PhraseWithParticle_ParticleFirst(Phrase, P) == Template(P, Phrase)

PhraseWithParticle(Phrase, P) == Template(Phrase, P)

\* mutant: the form defaults to the ます形
DemonstrativeAction_DefaultPolite(Demo, V, F) ==
  Template(Demo, ConjugateVerb(V, DefaultForm(F, "masu")))

DemonstrativeAction(Demo, V, F) ==
  Template(Demo, ConjugateVerb(V, DefaultForm(F, "jisho")))

\* mutant: the conditional particle follows the result
ConditionalPhrase_ParticleLast(Subject, CP, Result) ==
  Template(Subject, Template(Result, CP))

ConditionalPhrase(Subject, CP, Result) ==
  Template(Subject, Template(CP, Result))

\* mutant: the phrases are joined without the comma
ConnectedPhrases_NoComma(P1, P2) == Template(P1, P2)

\* mutant: a comma also follows the second phrase
ConnectedPhrases_TrailingComma(P1, P2) ==
  Template(P1, Template(<<"touten">>, Template(P2, <<"touten">>)))

ConnectedPhrases(P1, P2) == Template(P1, Template(<<"touten">>, P2))

\* mutant: the question particle defaults to の
InterrogativePhrase_DefaultNo(Adv, Subject, V, VForm, QP) ==
  Template(Adv,
    Template(Subject,
      Template(ConjugateVerb(V, VForm), Default(QP, <<"no">>))))

InterrogativePhrase(Adv, Subject, V, VForm, QP) ==
  Template(Adv,
    Template(Subject,
      Template(ConjugateVerb(V, VForm), Default(QP, <<"ka">>))))

\* a template literal distributes over a union in a placeholder: the phrase
\* for a union of adverbs is the union of the phrases, never dropping out
InterrogativePhraseOverUnion(Advs, Subject, V, VForm, QP) ==
  {InterrogativePhrase(a, Subject, V, VForm, QP) : a \in Advs} \ {Never}

\* the result slot for a union type with the given members
UnionResult(members) ==
  IF members = {} THEN Never
  ELSE IF Cardinality(members) = 1 THEN CHOOSE m \in members : TRUE
  ELSE Union

\* ProperNoun<T>: the noun's own string
ProperNoun(T) == T

VerbPart(V, F) ==
  [type |-> "verb", verb |-> V, form |-> F, value |-> ConjugateVerb(V, F)]

AdjectivePart(A, F) ==
  [type |-> "adjective", adjective |-> A, form |-> F,
   value |-> ConjugateAdjective(A, F)]

NounPart(N) == [type |-> "noun", noun |-> N, value |-> N]

AdverbPart(A) == [type |-> "adverb", adverb |-> A, value |-> A]

ParticlePart(P) == [type |-> "particle", particle |-> P, value |-> P]

IntensifierPart(I) ==
  [type |-> "intensifier", intensifier |-> I, value |-> I]

ContractedPart(Original, Contracted) ==
  [type |-> "contracted", original |-> Default(Original, String),
   value |-> Default(Contracted, String)]

NestedPhrasePart(V) == [type |-> "nestedPhrase", value |-> V]

PunctuationPart(P) ==
  [type |-> "punctuation", punctuation |-> P, value |-> P]

\* `First extends PhrasePart`: the part is a member of the PhrasePart union
\* (a value of never or of a string literal is assignable to every member's
\* value field, so the fields with a closed domain decide)
IsPhrasePart(p) ==
  CASE p.type = "verb" -> IsVerb(p.verb) /\ p.form \in ConjugationForm
    [] p.type = "adjective" ->
         IsAdjective(p.adjective) /\ p.form \in AdjectiveConjugationForm
    [] p.type = "particle" -> p.particle \in Particle
    [] p.type = "punctuation" -> p.punctuation \in PunctuationMark
    [] p.type \in {"noun", "adverb", "intensifier", "contracted",
                   "nestedPhrase"} -> TRUE
    [] OTHER -> FALSE

\* mutant: a comma is put between consecutive parts
RECURSIVE JoinPhrasePartsValue_Separated(_)
JoinPhrasePartsValue_Separated(Parts) ==
  IF Len(Parts) > 0 /\ \A i \in 1..Len(Parts) : IsPhrasePart(Parts[i])
    THEN IF Len(Parts) = 1
           THEN Parts[1].value
           ELSE Template(Parts[1].value,
                  Template(<<"touten">>,
                    JoinPhrasePartsValue_Separated(Tail(Parts))))
    ELSE <<>>

\* mutant: the first part's value is appended after the rest
RECURSIVE JoinPhrasePartsValue_Reversed(_)
JoinPhrasePartsValue_Reversed(Parts) ==
  IF Len(Parts) > 0 /\ \A i \in 1..Len(Parts) : IsPhrasePart(Parts[i])
    THEN Template(JoinPhrasePartsValue_Reversed(Tail(Parts)), Parts[1].value)
    ELSE <<>>

\* Parts extends readonly [infer First extends PhrasePart,
\*                         ...infer Rest extends PhrasePart[]]
RECURSIVE JoinPhrasePartsValue(_)
JoinPhrasePartsValue(Parts) ==
  IF Len(Parts) > 0 /\ \A i \in 1..Len(Parts) : IsPhrasePart(Parts[i])
    THEN Template(Parts[1].value, JoinPhrasePartsValue(Tail(Parts)))
    ELSE <<>>

PhraseSequence(Parts) ==
  [parts |-> Parts, value |-> JoinPhrasePartsValue(Parts)]

NestedPhrase(T) == [type |-> "nestedPhrase", value |-> T.value]

WhyIntensifierPatternWithEmphasis(Why, Intensifier, V, P) ==
  PhraseSequence(
    <<AdverbPart(Why), IntensifierPart(Intensifier), VerbPart(V, "te"),
      ContractedPart(<<"n">>, Omitted), ParticlePart(<<"da">>),
      ParticlePart(P)>>)

\* the string literal s belongs to the template literal type T, in which a
\* "string" token matches any run of characters
RECURSIVE Matches(_, _)
Matches(T, s) ==
  IF T = <<>> THEN s = <<>>
  ELSE IF Head(T) = "string"
    THEN \E k \in 0..Len(s) : Matches(Tail(T), SubSeq(s, k + 1, Len(s)))
  ELSE /\ s # <<>>
       /\ Head(s) = Head(T)
       /\ Matches(Tail(T), Tail(s))

\* `const x: T = s` type-checks; nothing is assignable to never
Assignable(s, T) == T # Never /\ Matches(T, s)

\* A & B for string literal types and plain string: equal literals and
\* string leave the literal, two different literals are never
Intersection(A, B) ==
  IF A = Never \/ B = Never THEN Never
  ELSE IF A = B THEN A
  ELSE IF B = String THEN A
  ELSE IF A = String THEN B
  ELSE Never

---------------------------------------------------------------------------
(* The declarations a program can write *)

\* endings a declaration may carry: the nine Godan endings and x
EndingCandidates == GodanEnding \cup {<<"x">>}

\* dictionary literals a declaration may carry: the three irregulars and ある
DictionaryCandidates == IrregularDictionary \cup {<<"a", "ru">>}

\* する, 来る, 慣れる
Suru == [type |-> "irregular", dictionary |-> <<"su", "ru">>]

Kuru == [type |-> "irregular", dictionary |-> <<"KU", "ru">>]

Nareru == [type |-> "ichidan", stem |-> <<"NA", "re">>, ending |-> <<"ru">>]

\* やる and わかる
Yaru == [type |-> "godan", stem |-> <<"ya">>, ending |-> <<"ru">>]

Wakaru == [type |-> "godan", stem |-> <<"wa", "ka">>, ending |-> <<"ru">>]

VerbCandidates ==
  [type : {"godan", "ichidan"}, stem : Stems, ending : EndingCandidates]
    \cup [type : {"irregular"}, dictionary : DictionaryCandidates]
    \cup {Nareru, Yaru, Wakaru}

\* endings an i-adjective declaration may carry: い and な
AdjectiveEndingCandidates == IAdjectiveEnding \cup {<<"na">>}

AdjectiveCandidates ==
  [type : {"i-adjective"}, stem : Stems, ending : AdjectiveEndingCandidates,
   irregular : {"true", "false", "absent"}]
    \cup [type : {"na-adjective"}, stem : Stems]

\* every form tag a conjugation may be asked for
RequestedForms == ConjugationForm \cup AdjectiveConjugationForm

NoWord == [type |-> "none"]

NoCall == [op |-> "none"]

\* ヒンメル
Himmel == <<"HI", "NN", "ME", "RU">>

\* いいよ and 来いよ as the examples build them
Iiyo == PhraseWithParticle(ConjugateAdjective(Ii, "kihon"), <<"yo">>)

Koiyo == PhraseWithParticle(ConjugateVerb(Kuru, "meirei"), <<"yo">>)

\* そうした as the example builds it
Soushita == DemonstrativeAction(<<"so", "u">>, Suru, "ta")

\* phrases a template may be given: the empty string, string, never, 買,
\* いい, 来い, いいよ, 来いよ, ヒンメル, そうした
PhrasePool ==
  {<<>>, String, Never, <<"KA">>, ConjugateAdjective(Ii, "kihon"),
   ConjugateVerb(Kuru, "meirei"), Iiyo, Koiyo, Himmel, Soushita}

\* particle arguments: every particle, and x
ParticleCandidates == Particle \cup {<<"x">>}

\* conditional particle arguments: the four conditional particles, and は
ConditionalParticleCandidates == ConditionalParticle \cup {<<"ha">>}

\* demonstrative arguments: the four demonstratives, and the empty string
DemonstrativeCandidates == Demonstrative \cup {<<>>}

\* interrogative adverb arguments: なんで, いつ, and そう
InterrogativeAdverbCandidates ==
  {<<"na", "n", "de">>, <<"i", "tu">>, <<"so", "u">>}

\* subjects of an interrogative phrase: the empty string and 買
SubjectCandidates == {<<>>, <<"KA">>}

\* question particle arguments: left out, の, よ, and x
QuestionParticleCandidates == {Omitted, <<"no">>, <<"yo">>, <<"x">>}

Init ==
  /\ pc = "idle"
  /\ word = NoWord
  /\ form = "none"
  /\ result = Unevaluated
  /\ accepted = TRUE
  /\ call = NoCall
  /\ alternatives = {}

\* a verb type is declared; a declaration outside Verb is rejected
DeclareVerb ==
  /\ pc = "idle"
  /\ \E c \in VerbCandidates :
       /\ word' = c
       /\ accepted' = IsVerb(c)
       /\ pc' = IF IsVerb(c) THEN "declared" ELSE "rejected"
  /\ UNCHANGED <<form, result, call, alternatives>>

\* ConjugateVerb<V, F> is evaluated for the declared verb
ApplyConjugateVerb ==
  /\ pc = "declared"
  /\ word.type \in {"godan", "ichidan", "irregular"}
  /\ \E F \in RequestedForms :
       /\ form' = F
       /\ accepted' = (F \in ConjugationForm)
       /\ result' = ConjugateVerb(word, F)
  /\ pc' = "conjugated"
  /\ UNCHANGED <<word, call, alternatives>>

\* an adjective type is declared; a declaration outside Adjective is rejected
DeclareAdjective ==
  /\ pc = "idle"
  /\ \E c \in AdjectiveCandidates :
       /\ word' = c
       /\ accepted' = IsAdjective(c)
       /\ pc' = IF IsAdjective(c) THEN "declared" ELSE "rejected"
  /\ UNCHANGED <<form, result, call, alternatives>>

\* ConjugateAdjective<A, F> is evaluated for the declared adjective
ApplyConjugateAdjective ==
  /\ pc = "declared"
  /\ word.type \in {"i-adjective", "na-adjective"}
  /\ \E F \in RequestedForms :
       /\ form' = F
       /\ accepted' = (F \in AdjectiveConjugationForm)
       /\ result' = ConjugateAdjective(word, F)
  /\ pc' = "conjugated"
  /\ UNCHANGED <<word, call, alternatives>>

\* 高い flagged irregular: an i-adjective whose non-basic forms are never
IrregularTakai ==
  [type |-> "i-adjective", stem |-> <<"KA">>, ending |-> <<"i">>,
   irregular |-> "true"]

\* parts a phrase sequence is built from, among them a verb part with an
\* adjective form and an adjective part whose conjugation is never
PartPool ==
  {AdverbPart(<<"na", "n", "de">>), IntensifierPart(<<"so", "n", "na", "ni">>),
   VerbPart(Nareru, "te"), ContractedPart(<<"n">>, Omitted),
   ContractedPart(<<"no">>, <<"n">>), ParticlePart(<<"da">>),
   ParticlePart(<<"yo">>), NounPart(<<"KA">>), PunctuationPart(<<"touten">>),
   NestedPhrasePart(Iiyo), AdjectivePart(Ii, "kako"),
   VerbPart(Nareru, "kihon"), AdjectivePart(IrregularTakai, "kako")}

\* SentenceParts of the なんでそんなに慣れてんだよ example
SentenceParts ==
  <<AdverbPart(<<"na", "n", "de">>), IntensifierPart(<<"so", "n", "na", "ni">>),
    VerbPart(Nareru, "te"), ContractedPart(<<"n">>, Omitted),
    ParticlePart(<<"da">>), ParticlePart(<<"yo">>)>>

\* the same sentence with the contraction given as ContractedPart<の, ん>
SentencePartsContracted ==
  <<AdverbPart(<<"na", "n", "de">>), IntensifierPart(<<"so", "n", "na", "ni">>),
    VerbPart(Nareru, "te"), ContractedPart(<<"no">>, <<"n">>),
    ParticlePart(<<"da">>), ParticlePart(<<"yo">>)>>

\* the part lists a sequence is evaluated for
PartSequences ==
  UNION {[1..n -> PartPool] : n \in 0..MaxParts}
    \cup {SentenceParts, SentencePartsContracted}

\* why arguments: なぜ, なんで, どうして, and いつ
WhyCandidates == WhyInterrogative \cup {<<"i", "tu">>}

\* intensifier arguments: そんなに and the empty string
IntensifierCandidates == {<<"so", "n", "na", "ni">>, <<>>}

\* emphasis particle arguments: よ, ね, and か
EmphasisCandidates == {<<"yo">>, <<"ne">>, <<"ka">>}

\* JoinPhrasePartsValue<Parts> is evaluated
ApplyJoinPhrasePartsValue ==
  /\ pc = "idle"
  /\ \E Parts \in PartSequences :
       /\ call' = [op |-> "JoinPhrasePartsValue", Parts |-> Parts]
       /\ accepted' = \A i \in 1..Len(Parts) : IsPhrasePart(Parts[i])
       /\ result' = JoinPhrasePartsValue(Parts)
  /\ pc' = "composed"
  /\ UNCHANGED <<word, form, alternatives>>

\* WhyIntensifierPatternWithEmphasis<Why, Intensifier, V, P>["value"] is
\* evaluated for the declared verb
ApplyWhyIntensifierPatternWithEmphasis ==
  /\ pc = "declared"
  /\ word.type \in {"godan", "ichidan", "irregular"}
  /\ \E Why \in WhyCandidates, Intensifier \in IntensifierCandidates,
        P \in EmphasisCandidates :
       /\ call' = [op |-> "WhyIntensifierPatternWithEmphasis", Why |-> Why,
                   Intensifier |-> Intensifier, V |-> word, P |-> P]
       /\ accepted' = (Why \in WhyInterrogative /\ P \in {<<"yo">>, <<"ne">>})
       /\ result' =
            WhyIntensifierPatternWithEmphasis(Why, Intensifier, word, P).value
  /\ pc' = "composed"
  /\ UNCHANGED <<word, form, alternatives>>

\* PhraseWithParticle<Phrase, P> is evaluated
ApplyPhraseWithParticle ==
  /\ pc = "idle"
  /\ \E Phrase \in PhrasePool, P \in ParticleCandidates :
       /\ call' = [op |-> "PhraseWithParticle", Phrase |-> Phrase, P |-> P]
       /\ accepted' = (P \in Particle)
       /\ result' = PhraseWithParticle(Phrase, P)
  /\ pc' = "composed"
  /\ UNCHANGED <<word, form, alternatives>>

\* ConnectedPhrases<P1, P2> is evaluated
ApplyConnectedPhrases ==
  /\ pc = "idle"
  /\ \E P1 \in PhrasePool, P2 \in PhrasePool :
       /\ call' = [op |-> "ConnectedPhrases", P1 |-> P1, P2 |-> P2]
       /\ result' = ConnectedPhrases(P1, P2)
  /\ accepted' = TRUE
  /\ pc' = "composed"
  /\ UNCHANGED <<word, form, alternatives>>

\* ConditionalPhrase<Subject, CP, Result> is evaluated
ApplyConditionalPhrase ==
  /\ pc = "idle"
  /\ \E Subject \in PhrasePool, CP \in ConditionalParticleCandidates,
        Result \in PhrasePool :
       /\ call' = [op |-> "ConditionalPhrase", Subject |-> Subject,
                   CP |-> CP, Result |-> Result]
       /\ accepted' = (CP \in ConditionalParticle)
       /\ result' = ConditionalPhrase(Subject, CP, Result)
  /\ pc' = "composed"
  /\ UNCHANGED <<word, form, alternatives>>

\* DemonstrativeAction<Demo, V, F> is evaluated for the declared verb
ApplyDemonstrativeAction ==
  /\ pc = "declared"
  /\ word.type \in {"godan", "ichidan", "irregular"}
  /\ \E Demo \in DemonstrativeCandidates,
        F \in RequestedForms \cup {OmittedForm} :
       /\ call' = [op |-> "DemonstrativeAction", Demo |-> Demo, V |-> word,
                   F |-> F]
       /\ accepted' = (F \in ConjugationForm \cup {OmittedForm})
       /\ result' = DemonstrativeAction(Demo, word, F)
  /\ pc' = "composed"
  /\ UNCHANGED <<word, form, alternatives>>

\* InterrogativePhrase<Adv, Subject, V, VForm, QP> is evaluated for the
\* declared verb
ApplyInterrogativePhrase ==
  /\ pc = "declared"
  /\ word.type \in {"godan", "ichidan", "irregular"}
  /\ \E Adv \in InterrogativeAdverbCandidates, Subject \in SubjectCandidates,
        VForm \in RequestedForms, QP \in QuestionParticleCandidates :
       /\ call' = [op |-> "InterrogativePhrase", Adv |-> Adv,
                   Subject |-> Subject, V |-> word, VForm |-> VForm,
                   QP |-> QP]
       /\ accepted' = /\ Adv \in InterrogativeAdverb
                      /\ VForm \in ConjugationForm
                      /\ QP \in Particle \cup {Omitted}
       /\ result' = InterrogativePhrase(Adv, Subject, word, VForm, QP)
  /\ pc' = "composed"
  /\ UNCHANGED <<word, form, alternatives>>

\* 春日影
Kasugakage == ProperNoun(<<"HARU", "HI", "KAGE">>)

\* adverb arguments that are unions: WhyInterrogative, なんで alone,
\* だれ | 誰, and the empty union
AdverbUnionCandidates ==
  {WhyInterrogative, {<<"na", "n", "de">>}, {<<"da", "re">>, <<"DARE">>}, {}}

\* InterrogativePhrase<Adv, Subject, V, VForm, QP> is evaluated for the
\* declared verb with a union of adverbs as Adv
ApplyInterrogativePhraseUnion ==
  /\ pc = "declared"
  /\ word.type \in {"godan", "ichidan", "irregular"}
  /\ \E Advs \in AdverbUnionCandidates,
        Subject \in SubjectCandidates \cup {Kasugakage},
        VForm \in {"ta", "jisho", "kihon"}, QP \in {Omitted, <<"no">>} :
       /\ call' = [op |-> "InterrogativePhraseUnion", Adv |-> Advs,
                   Subject |-> Subject, V |-> word, VForm |-> VForm,
                   QP |-> QP]
       /\ accepted' = /\ Advs \subseteq InterrogativeAdverb
                      /\ VForm \in ConjugationForm
       /\ alternatives' =
            InterrogativePhraseOverUnion(Advs, Subject, word, VForm, QP)
       /\ result' =
            UnionResult(
              InterrogativePhraseOverUnion(Advs, Subject, word, VForm, QP))
  /\ pc' = "composed"
  /\ UNCHANGED <<word, form>>

\* 日本語
Nihongo == ProperNoun(<<"NI", "HON", "GO">>)

\* 日本語は as the example builds it
NihongoWa == PhraseWithParticle(Nihongo, <<"ha">>)

\* operands intersected with a conjugated verb: 日本語は, た, わかって, string
IntersectionOperands ==
  {NihongoWa, <<"ta">>, <<"wa", "ka", "xtu", "te">>, String}

\* A & ConjugateVerb<V, F> & C is evaluated for the declared verb
ApplyIntersection ==
  /\ pc = "declared"
  /\ word.type \in {"godan", "ichidan", "irregular"}
  /\ \E A \in IntersectionOperands, F \in {"te", "ta"},
        C \in IntersectionOperands :
       /\ call' = [op |-> "Intersection", A |-> A, V |-> word, F |-> F,
                   C |-> C]
       /\ result' = Intersection(Intersection(A, ConjugateVerb(word, F)), C)
  /\ accepted' = TRUE
  /\ pc' = "composed"
  /\ UNCHANGED <<word, form, alternatives>>

\* ConnectedPhrases is evaluated on three phrases, grouped to the left,
\* ConnectedPhrases<ConnectedPhrases<P1, P2>, P3>, or to the right,
\* ConnectedPhrases<P1, ConnectedPhrases<P2, P3>>
ApplyConnectedPhrasesNested ==
  /\ pc = "idle"
  /\ \E P1 \in PhrasePool, P2 \in PhrasePool, P3 \in PhrasePool,
        side \in {"left", "right"} :
       /\ call' = [op |-> "ConnectedPhrasesNested", P1 |-> P1, P2 |-> P2,
                   P3 |-> P3, side |-> side]
       /\ result' =
            IF side = "left"
              THEN ConnectedPhrases(ConnectedPhrases(P1, P2), P3)
              ELSE ConnectedPhrases(P1, ConnectedPhrases(P2, P3))
  /\ accepted' = TRUE
  /\ pc' = "composed"
  /\ UNCHANGED <<word, form, alternatives>>

Next ==
  \/ DeclareVerb
  \/ ApplyConjugateVerb
  \/ DeclareAdjective
  \/ ApplyConjugateAdjective
  \/ ApplyPhraseWithParticle
  \/ ApplyConnectedPhrases
  \/ ApplyConditionalPhrase
  \/ ApplyDemonstrativeAction
  \/ ApplyInterrogativePhrase
  \/ ApplyJoinPhrasePartsValue
  \/ ApplyWhyIntensifierPatternWithEmphasis
  \/ ApplyInterrogativePhraseUnion
  \/ ApplyIntersection
  \/ ApplyConnectedPhrasesNested

Spec == Init /\ [][Next]_vars

---------------------------------------------------------------------------
(* Properties of the verb conjugation engine *)

NonDictionaryForm == ConjugationForm \ {"jisho"}

VerbType == {"godan", "ichidan", "irregular"}

\* a conjugation of a word of type t has been evaluated
Conjugated(t) == pc = "conjugated" /\ word.type = t

\* C1: for every Godan ending, stem and non-dictionary form ConjugateVerb
\* returns stem + GodanConjugationMap[ending][form]; the 9 x 11 table has
\* every cell populated, so no such call fails.
C1_GodanTableLookup ==
  /\ Cardinality(GodanEnding) = 9
  /\ Cardinality(NonDictionaryForm) = 11
  /\ \A e \in GodanEnding, f \in NonDictionaryForm :
       /\ e \in DOMAIN GodanConjugationMap
       /\ f \in DOMAIN GodanConjugationMap[e]
       /\ Len(GodanConjugationMap[e][f]) > 0
  /\ (Conjugated("godan") /\ form \in NonDictionaryForm) =>
       /\ result # Never
       /\ accepted
       /\ result = word.stem \o GodanConjugationMap[word.ending][form]

C1_Witness ==
  /\ Conjugated("godan")
  /\ word.stem = <<"KA">> /\ word.ending = <<"u">>
  /\ form = "katei"
  /\ result = <<"KA", "e">>

\* the て形 fragment of C2 by ending: って, いて, いで, して, んで
TeFragment(e) ==
  CASE e \in {<<"u">>, <<"tu">>, <<"ru">>} -> <<"xtu", "te">>
    [] e = <<"ku">> -> <<"i", "te">>
    [] e = <<"gu">> -> <<"i", "de">>
    [] e = <<"su">> -> <<"si", "te">>
    [] e \in {<<"nu">>, <<"bu">>, <<"mu">>} -> <<"n", "de">>

\* the た形 fragment of C2 by ending: った, いた, いだ, した, んだ
TaFragment(e) ==
  CASE e \in {<<"u">>, <<"tu">>, <<"ru">>} -> <<"xtu", "ta">>
    [] e = <<"ku">> -> <<"i", "ta">>
    [] e = <<"gu">> -> <<"i", "da">>
    [] e = <<"su">> -> <<"si", "ta">>
    [] e \in {<<"nu">>, <<"bu">>, <<"mu">>} -> <<"n", "da">>

\* C2: the Godan て形 is stem + って (う, つ, る), いて (く), いで (ぐ), して (す),
\* んで (ぬ, ぶ, む), and the た形 the same with った, いた, いだ, した, んだ.
C2_GodanTeTa ==
  Conjugated("godan") =>
    /\ form = "te" => result = word.stem \o TeFragment(word.ending)
    /\ form = "ta" => result = word.stem \o TaFragment(word.ending)

\* 買う -> 買った
C2_Witness ==
  /\ Conjugated("godan")
  /\ word.stem = <<"KA">> /\ word.ending = <<"u">>
  /\ form = "ta"
  /\ result = <<"KA", "xtu", "ta">>

\* C3: the 辞書形 of a Godan or Ichidan verb is stem + ending, and of an
\* irregular verb exactly its dictionary field.
C3_DictionaryForm ==
  (pc = "conjugated" /\ form = "jisho") =>
    /\ word.type \in {"godan", "ichidan"} => result = word.stem \o word.ending
    /\ word.type = "irregular" => result = word.dictionary

C3_Witness ==
  /\ Conjugated("godan")
  /\ form = "jisho"
  /\ word.stem = <<"KA">> /\ word.ending = <<"u">>
  /\ result = <<"KA", "u">>

\* C4: for an Ichidan verb with stem s, ます形 and ない形 are s, て形 is s + て,
\* た形 is s + た, 可能形/受身形/使役形/条件形/仮定形 are s + られ, 意向形 is
\* s + よう and 命令形 is s + ろ.
C4_Ichidan ==
  Conjugated("ichidan") =>
    /\ form \in {"masu", "nai"} => result = word.stem
    /\ form = "te" => result = word.stem \o <<"te">>
    /\ form = "ta" => result = word.stem \o <<"ta">>
    /\ form \in {"kanou", "ukemi", "shieki", "jouken", "katei"} =>
         result = word.stem \o <<"ra", "re">>
    /\ form = "ikou" => result = word.stem \o <<"yo", "u">>
    /\ form = "meirei" => result = word.stem \o <<"ro">>

C4_Witness ==
  /\ Conjugated("ichidan")
  /\ word.stem = <<"KA", "be">>
  /\ form = "shieki"
  /\ result = <<"KA", "be", "ra", "re">>

\* C5: for an irregular verb every form is the fixed literal of the
\* per-lexeme table: する gives し, して, した, し, でき, しろ for ます形, て形,
\* た形, ない形, 可能形, 命令形; 来る gives 来, 来て, 来い for ます形, て形, 命令形.
C5_IrregularLiterals ==
  (Conjugated("irregular") /\ form \in ConjugationForm) =>
    /\ result = IrregularConjugationMap[word.dictionary][form]
    /\ word.dictionary = <<"su", "ru">> =>
         /\ form = "masu" => result = <<"si">>
         /\ form = "te" => result = <<"si", "te">>
         /\ form = "ta" => result = <<"si", "ta">>
         /\ form = "nai" => result = <<"si">>
         /\ form = "kanou" => result = <<"de", "ki">>
         /\ form = "meirei" => result = <<"si", "ro">>
    /\ word.dictionary = <<"KU", "ru">> =>
         /\ form = "masu" => result = <<"KU">>
         /\ form = "te" => result = <<"KU", "te">>
         /\ form = "meirei" => result = <<"KU", "i">>

C5_Witness ==
  /\ Conjugated("irregular")
  /\ word.dictionary = <<"KU", "ru">>
  /\ form = "meirei"
  /\ result = <<"KU", "i">>

\* C6: ConjugateVerb yields a string for every valid verb and each of the
\* twelve verb forms, and fails exactly when the form is not one of them.
C6_VerbFormDomain ==
  /\ Cardinality(ConjugationForm) = 12
  /\ (pc = "conjugated" /\ word.type \in VerbType) =>
       /\ form \in ConjugationForm =>
            accepted /\ result \notin {Never, Unevaluated}
       /\ form \notin ConjugationForm => ~accepted /\ result = Never

C6_Witness ==
  /\ Conjugated("ichidan")
  /\ form = "meirei"
  /\ accepted
  /\ result = word.stem \o <<"ro">>

\* a verb declaration whose ending or dictionary is outside its closed set
OutsideVerbDomain(w) ==
  \/ /\ w.type = "godan"
     /\ w.ending \notin {<<"u">>, <<"ku">>, <<"gu">>, <<"su">>, <<"tu">>,
                         <<"nu">>, <<"bu">>, <<"mu">>, <<"ru">>}
  \/ w.type = "ichidan" /\ w.ending # <<"ru">>
  \/ /\ w.type = "irregular"
     /\ w.dictionary \notin {<<"su", "ru">>, <<"KU", "ru">>, <<"ku", "ru">>}

---------------------------------------------------------------------------
(* Properties of the adjective conjugation engine *)

\* C8: for a na-adjective with stem s, 基本形 is s + な, 丁寧形 s + です,
\* 過去形 s + でした and 否定形 s + ではない.
C8_NaAdjective ==
  Conjugated("na-adjective") =>
    /\ form = "kihon" => result = word.stem \o <<"na">>
    /\ form = "teinei" => result = word.stem \o <<"de", "su">>
    /\ form = "kako" => result = word.stem \o <<"de", "si", "ta">>
    /\ form = "hitei" => result = word.stem \o <<"de", "ha", "na", "i">>

C8_Witness ==
  /\ Conjugated("na-adjective")
  /\ word.stem = <<"KA", "i">>
  /\ form = "teinei"
  /\ result = <<"KA", "i", "de", "su">>

\* C9: for an i-adjective not flagged irregular (flag false or absent) with
\* stem s, 基本形 is s + い, 丁寧形 s + いです, 過去形 s + かった and 否定形
\* s + くない.
C9_RegularIAdjective ==
  (Conjugated("i-adjective") /\ word.irregular \in {"false", "absent"}) =>
    /\ form = "kihon" => result = word.stem \o <<"i">>
    /\ form = "teinei" => result = word.stem \o <<"i", "de", "su">>
    /\ form = "kako" => result = word.stem \o <<"ka", "xtu", "ta">>
    /\ form = "hitei" => result = word.stem \o <<"ku", "na", "i">>

C9_Witness ==
  /\ Conjugated("i-adjective")
  /\ word.irregular = "absent"
  /\ word.stem = <<"KA">>
  /\ form = "kako"
  /\ result = <<"KA", "ka", "xtu", "ta">>

\* C10: for いい (stem い, ending い, irregular) 基本形 is いい, 過去形 よかった,
\* 否定形 よくない and 丁寧形 いいです; いかった and いくない are never produced.
C10_IiIrregular ==
  (pc = "conjugated" /\ word = Ii) =>
    /\ form = "kihon" => result = <<"i", "i">>
    /\ form = "kako" => result = <<"yo", "ka", "xtu", "ta">>
    /\ form = "hitei" => result = <<"yo", "ku", "na", "i">>
    /\ form = "teinei" => result = <<"i", "i", "de", "su">>
    /\ result # <<"i", "ka", "xtu", "ta">>
    /\ result # <<"i", "ku", "na", "i">>

C10_Witness ==
  /\ pc = "conjugated"
  /\ word = Ii
  /\ form = "kako"
  /\ result = <<"yo", "ka", "xtu", "ta">>

AdjectiveType == {"i-adjective", "na-adjective"}

---------------------------------------------------------------------------
(* Properties of the phrase composer *)

\* the template op has been evaluated
Composed(op) == pc = "composed" /\ call.op = op

\* C12: PhraseWithParticle(phrase, p) is phrase followed by p for every
\* phrase string and particle; 基本形 of いい with よ is いいよ, and いい is
\* not accepted for it.
C12_PhraseWithParticle ==
  (Composed("PhraseWithParticle") /\ call.Phrase # Never) =>
    /\ result = call.Phrase \o call.P
    /\ (call.Phrase = <<"i", "i">> /\ call.P = <<"yo">>) =>
         /\ result = <<"i", "i", "yo">>
         /\ Assignable(<<"i", "i", "yo">>, result)
         /\ ~Assignable(<<"i", "i">>, result)

C12_Witness ==
  /\ Composed("PhraseWithParticle")
  /\ call.Phrase = ConjugateAdjective(Ii, "kihon")
  /\ call.P = <<"yo">>
  /\ accepted
  /\ result = <<"i", "i", "yo">>

\* C13: ConnectedPhrases(p1, p2) is p1 + 、 + p2 with nothing after p2;
\* いいよ with 来いよ gives いいよ、来いよ, and いいよ来いよ and いいよ、くるよ、
\* are rejected.
C13_ConnectedPhrases ==
  (Composed("ConnectedPhrases") /\ call.P1 # Never /\ call.P2 # Never) =>
    /\ result = call.P1 \o <<"touten">> \o call.P2
    /\ (call.P1 = <<"i", "i", "yo">> /\ call.P2 = <<"KU", "i", "yo">>) =>
         /\ result = <<"i", "i", "yo", "touten", "KU", "i", "yo">>
         /\ Assignable(<<"i", "i", "yo", "touten", "KU", "i", "yo">>, result)
         /\ ~Assignable(<<"i", "i", "yo", "KU", "i", "yo">>, result)
         /\ ~Assignable(
               <<"i", "i", "yo", "touten", "ku", "ru", "yo", "touten">>,
               result)

C13_Witness ==
  /\ Composed("ConnectedPhrases")
  /\ call.P1 = Iiyo
  /\ call.P2 = Koiyo
  /\ result = <<"i", "i", "yo", "touten", "KU", "i", "yo">>

\* C14: ConditionalPhrase(subject, cp, result) is subject + cp + result with
\* cp one of なら, たら, れば, と; ヒンメル, なら, そうした give
\* ヒンメルならそうした, and ヒンメルはそうした is rejected.
C14_ConditionalPhrase ==
  Composed("ConditionalPhrase") =>
    /\ accepted <=>
         call.CP \in {<<"na", "ra">>, <<"ta", "ra">>, <<"re", "ba">>, <<"to">>}
    /\ (call.Subject # Never /\ call.Result # Never) =>
         result = call.Subject \o call.CP \o call.Result
    /\ (/\ call.Subject = <<"HI", "NN", "ME", "RU">>
        /\ call.CP = <<"na", "ra">>
        /\ call.Result = <<"so", "u", "si", "ta">>) =>
         /\ result =
              <<"HI", "NN", "ME", "RU", "na", "ra", "so", "u", "si", "ta">>
         /\ Assignable(
              <<"HI", "NN", "ME", "RU", "na", "ra", "so", "u", "si", "ta">>,
              result)
         /\ ~Assignable(
               <<"HI", "NN", "ME", "RU", "ha", "so", "u", "si", "ta">>, result)

C14_Witness ==
  /\ Composed("ConditionalPhrase")
  /\ call.Subject = Himmel
  /\ call.CP = <<"na", "ra">>
  /\ call.Result = Soushita
  /\ accepted
  /\ result = <<"HI", "NN", "ME", "RU", "na", "ra", "so", "u", "si", "ta">>

\* C15: DemonstrativeAction(demo, verb, form) is demo followed by
\* ConjugateVerb(verb, form), the form being the 辞書形 when left out; そう
\* with する in た形 is そうした, and そうする and こうした are rejected.
C15_DemonstrativeAction ==
  (Composed("DemonstrativeAction") /\ accepted) =>
    /\ call.F # OmittedForm =>
         result = call.Demo \o ConjugateVerb(call.V, call.F)
    /\ call.F = OmittedForm =>
         result = call.Demo \o ConjugateVerb(call.V, "jisho")
    /\ (call.Demo = <<"so", "u">> /\ call.V = Suru /\ call.F = "ta") =>
         /\ result = <<"so", "u", "si", "ta">>
         /\ Assignable(<<"so", "u", "si", "ta">>, result)
         /\ ~Assignable(<<"so", "u", "su", "ru">>, result)
         /\ ~Assignable(<<"ko", "u", "si", "ta">>, result)

C15_Witness ==
  /\ Composed("DemonstrativeAction")
  /\ call.Demo = <<"so", "u">>
  /\ call.V = Suru
  /\ call.F = OmittedForm
  /\ result = <<"so", "u", "su", "ru">>

\* C16: InterrogativePhrase(adv, subject, verb, form, qp) is adv + subject +
\* ConjugateVerb(verb, form) + qp, where adv is an interrogative adverb and
\* qp is か when left out and the supplied particle otherwise.
C16_InterrogativePhrase ==
  (Composed("InterrogativePhrase") /\ accepted) =>
    /\ call.Adv \in
         {<<"na", "ze">>, <<"na", "n", "de">>, <<"do", "u", "si", "te">>,
          <<"i", "tu">>, <<"do", "ko">>, <<"da", "re">>, <<"DARE">>,
          <<"NANI">>, <<"na", "ni">>, <<"do", "u">>, <<"do", "n", "na">>,
          <<"do", "re">>}
    /\ call.QP = Omitted =>
         result = call.Adv \o call.Subject
                    \o ConjugateVerb(call.V, call.VForm) \o <<"ka">>
    /\ call.QP # Omitted =>
         result = call.Adv \o call.Subject
                    \o ConjugateVerb(call.V, call.VForm) \o call.QP

C16_Witness ==
  /\ Composed("InterrogativePhrase")
  /\ call.Adv = <<"na", "n", "de">>
  /\ call.Subject = <<"KA">>
  /\ call.V = Suru
  /\ call.VForm = "ta"
  /\ call.QP = Omitted
  /\ result = <<"na", "n", "de", "KA", "si", "ta", "ka">>

---------------------------------------------------------------------------
(* Properties of structured phrase sequences *)

\* the value fields of the parts, in order
ValuesOf(Parts) == [i \in 1..Len(Parts) |-> Parts[i].value]

\* the first n strings of vals written one after the other
RECURSIVE ConcatLeft(_, _)
ConcatLeft(vals, n) ==
  IF n = 0 THEN <<>> ELSE ConcatLeft(vals, n - 1) \o vals[n]

\* なんでそんなに慣れてんだよ
NandeSonnaniNaretendayo ==
  <<"na", "n", "de", "so", "n", "na", "ni", "NA", "re", "te", "n", "da", "yo">>

\* C17: the value of a phrase sequence is its parts' value fields written
\* left to right with nothing between them, the empty sequence has the empty
\* string as value, and the six parts なんで, そんなに, て形 of 慣れる, ん, だ, よ
\* of SentenceParts join to なんでそんなに慣れてんだよ.
C17_JoinConcatenation ==
  (/\ Composed("JoinPhrasePartsValue")
   /\ accepted
   /\ \A i \in 1..Len(call.Parts) : call.Parts[i].value # Never) =>
    /\ result = ConcatLeft(ValuesOf(call.Parts), Len(call.Parts))
    /\ call.Parts = <<>> => result = <<>>
    /\ call.Parts = SentenceParts => result = NandeSonnaniNaretendayo

\* the conjugation inside the evaluated template or sequence is never
InnerConjugationFailed ==
  \/ /\ Composed("DemonstrativeAction")
     /\ ConjugateVerb(call.V, DefaultForm(call.F, "jisho")) = Never
  \/ /\ Composed("InterrogativePhrase")
     /\ ConjugateVerb(call.V, call.VForm) = Never
  \/ /\ Composed("JoinPhrasePartsValue")
     /\ \E i \in 1..Len(call.Parts) :
          /\ call.Parts[i].type \in {"verb", "adjective"}
          /\ call.Parts[i].value = Never

\* C18: whenever the conjugation inside DemonstrativeAction,
\* InterrogativePhrase, a VerbPart or an AdjectivePart fails, the composed
\* phrase or sequence value fails too and is never a string.
C18_FailurePropagates == InnerConjugationFailed => result = Never

\* C20: the value of WhyIntensifierPatternWithEmphasis(why, intensifier, verb,
\* p) is why + intensifier + て形 of verb + ん + だ + p; for なんで, そんなに,
\* 慣れる, よ it is the single string なんでそんなに慣れてんだよ, and no other
\* string (such as なんでそんなに慣れてのだよ) is accepted.
C20_WhyIntensifierValue ==
  (Composed("WhyIntensifierPatternWithEmphasis") /\ accepted) =>
    /\ result = call.Why \o call.Intensifier \o ConjugateVerb(call.V, "te")
                  \o <<"n">> \o <<"da">> \o call.P
    /\ (/\ call.Why = <<"na", "n", "de">>
        /\ call.Intensifier = <<"so", "n", "na", "ni">>
        /\ call.V = Nareru
        /\ call.P = <<"yo">>) =>
         /\ result = NandeSonnaniNaretendayo
         /\ Assignable(NandeSonnaniNaretendayo, result)
         /\ ~Assignable(
               <<"na", "n", "de", "so", "n", "na", "ni", "NA", "re", "te",
                 "no", "da", "yo">>, result)

---------------------------------------------------------------------------
(* Properties of the documented example sentences *)

\* the string literal s belongs to the evaluated type
Denotes(s) ==
  IF result = Union THEN s \in alternatives ELSE Assignable(s, result)

\* なんで春日影やったの
NandeKasugakageYattano ==
  <<"na", "n", "de", "HARU", "HI", "KAGE", "ya", "xtu", "ta", "no">>

\* the sentences obtained with any interrogative adverb in front
KasugakageQuestions ==
  {a \o <<"HARU", "HI", "KAGE", "ya", "xtu", "ta", "no">> :
     a \in InterrogativeAdverb}

\* C21: InterrogativePhrase with WhyInterrogative, the noun 春日影, the Godan
\* verb やる in た形 and the particle の denotes exactly the sentence
\* なんで春日影やったの: that string belongs to the type and no other does.
C21_NandeKasugakageYattano ==
  (/\ Composed("InterrogativePhraseUnion")
   /\ call.Adv = WhyInterrogative
   /\ call.Subject = Kasugakage
   /\ call.V = Yaru
   /\ call.VForm = "ta"
   /\ call.QP = <<"no">>) =>
    /\ Denotes(NandeKasugakageYattano)
    /\ \A s \in KasugakageQuestions : Denotes(s) => s = NandeKasugakageYattano

\* 日本語はわかってた
NihongoWaWakatteta ==
  <<"NI", "HON", "GO", "ha", "wa", "ka", "xtu", "te", "ta">>

\* C25: the example type composed from PhraseWithParticle(日本語, は), the
\* て形 of the Godan verb わかる and た denotes the string 日本語はわかってた.
C25_NihongoWaWakatteta ==
  (/\ Composed("Intersection")
   /\ call.A = NihongoWa
   /\ call.V = Wakaru
   /\ call.F = "te"
   /\ call.C = <<"ta">>) =>
    /\ result = NihongoWaWakatteta
    /\ Denotes(NihongoWaWakatteta)

---------------------------------------------------------------------------
(* The fixed templates as phrase sequences *)

\* C22: every fixed template, instantiated within its constraints, equals
\* the join of its constituents taken as parts in the same order:
\* PhraseWithParticle = join[nested, particle], ConnectedPhrases =
\* join[nested, punctuation 、, nested], ConditionalPhrase = join[nested,
\* nested, nested], DemonstrativeAction = join[adverb, verb part],
\* InterrogativePhrase = join[adverb, nested, verb part, particle].
C22_TemplatesAreJoins ==
  /\ (Composed("PhraseWithParticle") /\ accepted) =>
       result = JoinPhrasePartsValue(
                  <<NestedPhrasePart(call.Phrase), ParticlePart(call.P)>>)
  /\ (Composed("ConnectedPhrases") /\ accepted) =>
       result = JoinPhrasePartsValue(
                  <<NestedPhrasePart(call.P1), PunctuationPart(<<"touten">>),
                    NestedPhrasePart(call.P2)>>)
  /\ (Composed("ConditionalPhrase") /\ accepted) =>
       result = JoinPhrasePartsValue(
                  <<NestedPhrasePart(call.Subject), NestedPhrasePart(call.CP),
                    NestedPhrasePart(call.Result)>>)
  /\ (Composed("DemonstrativeAction") /\ accepted) =>
       result = JoinPhrasePartsValue(
                  <<AdverbPart(call.Demo),
                    VerbPart(call.V, DefaultForm(call.F, "jisho"))>>)
  /\ (Composed("InterrogativePhrase") /\ accepted) =>
       result = JoinPhrasePartsValue(
                  <<AdverbPart(call.Adv), NestedPhrasePart(call.Subject),
                    VerbPart(call.V, call.VForm),
                    ParticlePart(Default(call.QP, <<"ka">>))>>)

\* an interrogative phrase of four non-empty constituents was evaluated
C22_Witness ==
  /\ Composed("InterrogativePhrase")
  /\ accepted
  /\ call.Subject # <<>>
  /\ call.QP = <<"no">>
  /\ result # Never
  /\ Len(result) >= 5

---------------------------------------------------------------------------
(* Relations between the forms of one verb *)

\* the dictionary spelling of a verb
DictionarySpelling(V) ==
  IF V.type = "irregular" THEN V.dictionary ELSE V.stem \o V.ending

SurfaceStrings(V) == {ConjugateVerb(V, F) : F \in NonDictionaryForm}

\* C26: for every Godan ending the fragments of 可能形, 命令形, 条件形 and
\* 仮定形 are identical and those of ない形, 受身形 and 使役形 are identical,
\* so a Godan verb has at most six distinct non-dictionary surface strings;
\* for each irregular lexeme 条件形 and 仮定形 are identical.
C26_SharedFragments ==
  /\ \A E \in GodanEnding :
       /\ \A F \in {"meirei", "jouken", "katei"} :
            GetGodanConjugation(E, F) = GetGodanConjugation(E, "kanou")
       /\ \A F \in {"ukemi", "shieki"} :
            GetGodanConjugation(E, F) = GetGodanConjugation(E, "nai")
  /\ Conjugated("godan") =>
       /\ form \in {"kanou", "meirei", "jouken", "katei"} =>
            result = word.stem \o GodanConjugationMap[word.ending]["kanou"]
       /\ form \in {"nai", "ukemi", "shieki"} =>
            result = word.stem \o GodanConjugationMap[word.ending]["nai"]
       /\ Cardinality(SurfaceStrings(word)) <= 6
  /\ Conjugated("irregular") =>
       /\ form = "jouken" =>
            result = IrregularConjugationMap[word.dictionary]["katei"]
       /\ form = "katei" =>
            result = IrregularConjugationMap[word.dictionary]["jouken"]

\* the 条件形 of a Godan verb in す was evaluated
C26_Witness ==
  /\ Conjugated("godan")
  /\ word.ending = <<"su">>
  /\ form = "jouken"
  /\ result = word.stem \o <<"se">>
  /\ Cardinality(SurfaceStrings(word)) = 6

---------------------------------------------------------------------------
(* Empty results *)

\* C24: ConjugateVerb and ConjugateAdjective never return the empty string:
\* for every verb or adjective that can be declared and every form, the
\* result is either never or a non-empty string.
C24_NeverEmptyString ==
  (pc = "conjugated" /\ word.type \in VerbType \cup AdjectiveType) =>
    result # <<>>

---------------------------------------------------------------------------
(* I-adjectives flagged irregular *)

\* an adjective form was evaluated for an i-adjective flagged irregular
IrregularFlagged ==
  /\ pc = "conjugated"
  /\ word.type = "i-adjective"
  /\ word.irregular = "true"
  /\ form \in AdjectiveConjugationForm

\* C27: an i-adjective flagged irregular whose stem is not い can be
\* declared; its 基本形 is stem + い and its 丁寧形, 過去形 and 否定形 are
\* never, with no fall back to the regular rule.  For the stem い the result
\* of a non-basic form is the table literal alone, without the stem in front.
C27_IrregularFlag ==
  IrregularFlagged =>
    /\ accepted
    /\ word.stem # <<"i">> =>
         /\ form = "kihon" => result = word.stem \o <<"i">>
         /\ form # "kihon" => result = Never
    /\ (word.stem = <<"i">> /\ form # "kihon") =>
         /\ result = IrregularAdjectiveMap[<<"i">>][form]
         /\ result # word.stem \o IrregularAdjectiveMap[<<"i">>][form]

\* the 過去形 of 買い flagged irregular was evaluated and is never
C27_Witness ==
  /\ IrregularFlagged
  /\ word.stem = <<"KA">>
  /\ form = "kako"
  /\ accepted
  /\ result = Never

---------------------------------------------------------------------------
(* Algebraic laws of the composers *)

\* C28: ConnectedPhrases is associative: for all phrases a, b, c, grouping
\* to the left and grouping to the right give the same string, which is
\* a + 、 + b + 、 + c.
C28_ConnectedPhrasesAssociative ==
  Composed("ConnectedPhrasesNested") =>
    /\ result = ConnectedPhrases(ConnectedPhrases(call.P1, call.P2), call.P3)
    /\ result = ConnectedPhrases(call.P1, ConnectedPhrases(call.P2, call.P3))
    /\ Never \notin {call.P1, call.P2, call.P3} =>
         result = call.P1 \o <<"touten">> \o call.P2 \o <<"touten">> \o call.P3

\* いいよ、来いよ、そうした was built grouping to the left
C28_Witness ==
  /\ Composed("ConnectedPhrasesNested")
  /\ call.side = "left"
  /\ call.P1 = Iiyo /\ call.P2 = Koiyo /\ call.P3 = Soushita
  /\ result = <<"i", "i", "yo", "touten", "KU", "i", "yo", "touten",
                "so", "u", "si", "ta">>

\* the parts i..j of a part list
Run(Parts, i, j) == SubSeq(Parts, i, j)

\* C29: joining distributes over list concatenation, join(xs ++ ys) =
\* join(xs) + join(ys) for all lists of phrase parts xs, ys; hence replacing
\* a contiguous run of parts by one NestedPhrasePart carrying the run's
\* joined value leaves the value of the whole sequence unchanged.
C29_JoinDistributes ==
  (Composed("JoinPhrasePartsValue") /\ accepted) =>
    LET Parts == call.Parts
        n == Len(call.Parts)
    IN /\ \A k \in 0..n :
            result = Template(JoinPhrasePartsValue(Run(Parts, 1, k)),
                              JoinPhrasePartsValue(Run(Parts, k + 1, n)))
       /\ \A i \in 1..n : \A j \in i..n :
            result =
              JoinPhrasePartsValue(
                Run(Parts, 1, i - 1)
                  \o <<NestedPhrasePart(JoinPhrasePartsValue(Run(Parts, i, j)))>>
                  \o Run(Parts, j + 1, n))

\* the six parts of なんでそんなに慣れてんだよ were joined
C29_Witness ==
  /\ Composed("JoinPhrasePartsValue")
  /\ accepted
  /\ call.Parts = SentencePartsContracted
  /\ result = NandeSonnaniNaretendayo

=============================================================================
